---- MODULE Spec2Model ----
(***************************************************************************)
(* Model of src/main.py: the job-application intake form.                  *)
(*                                                                         *)
(* Text is modelled as a sequence of one-character strings, so that        *)
(* urlencode, secure_filename, str.strip and str.lower are computed        *)
(* character by character.  A Python Optional is a sequence of length 0    *)
(* (None) or 1 (a value).  The optional columns phone, country, city,      *)
(* address, position, additional_info and ip_address are copied from the   *)
(* request unread and are left out of the rows.                            *)
(***************************************************************************)
EXTENDS Integers, Sequences, FiniteSets, TLC

VARIABLES applicants, has_table, uploads, pc, req, resp, local, pre,
          lastWriter, exclusive, spc, counts, dirty, mpc

vars == <<applicants, has_table, uploads, pc, req, resp, local, pre,
          lastWriter, exclusive, spc, counts, dirty, mpc>>

(* ------------------------------ bounds --------------------------------- *)
\* rows the table may hold in the sequential specifications
MaxRows == 2
\* rows the table may hold in the concurrent specifications
MaxConcRows == 2
\* query parameters on an inbound request
MaxParams == 2
\* rows an earlier run of the server has left in the table
MaxEarlierRows == 1

(* --------------------------- Python helpers ---------------------------- *)
None == <<>>
Some(x) == <<x>>

RECURSIVE LStrip(_, _)
LStrip(s, chars) ==
    IF s # <<>> /\ Head(s) \in chars THEN LStrip(Tail(s), chars) ELSE s

RECURSIVE RStrip(_, _)
RStrip(s, chars) ==
    IF s # <<>> /\ s[Len(s)] \in chars
    THEN RStrip(SubSeq(s, 1, Len(s) - 1), chars) ELSE s

\* str.strip(chars)
Strip(s, chars) == RStrip(LStrip(s, chars), chars)

Whitespace == {" "}

UpperToLower ==
    [c \in {"P", "Y", "T", "H", "O", "N", "M", "R"} |->
        CASE c = "P" -> "p" [] c = "Y" -> "y" [] c = "T" -> "t"
          [] c = "H" -> "h" [] c = "O" -> "o" [] c = "N" -> "n"
          [] c = "M" -> "m" [] c = "R" -> "r"]

\* str.lower()
Lower(s) ==
    [i \in 1..Len(s) |->
        IF s[i] \in DOMAIN UpperToLower THEN UpperToLower[s[i]] ELSE s[i]]

\* sub in s
Contains(s, sub) ==
    \E i \in 1..(Len(s) - Len(sub) + 1) : SubSeq(s, i, i + Len(sub) - 1) = sub

\* s.startswith(prefix)
StartsWith(s, prefix) ==
    Len(s) >= Len(prefix) /\ SubSeq(s, 1, Len(prefix)) = prefix

(* ------------------------- werkzeug.secure_filename -------------------- *)
\* characters kept by _filename_ascii_strip_re = [^A-Za-z0-9_.-]
FilenameChars == {"c", "v", "e", "t", "_", ".", "-"}

\* filename.replace(os.path.sep, " ")
ReplaceSep(s) == [i \in 1..Len(s) |-> IF s[i] = "/" THEN " " ELSE s[i]]

RECURSIVE CollapseRuns(_)
CollapseRuns(s) ==
    IF s = <<>> THEN <<>>
    ELSE IF Head(s) \in Whitespace
         THEN IF Len(s) > 1 /\ s[2] \in Whitespace
              THEN CollapseRuns(Tail(s))
              ELSE <<"_">> \o CollapseRuns(Tail(s))
         ELSE <<Head(s)>> \o CollapseRuns(Tail(s))

\* "_".join(filename.split())
SplitJoin(s) == CollapseRuns(Strip(s, Whitespace))

\* _filename_ascii_strip_re.sub("", s)
AsciiStrip(s) == SelectSeq(s, LAMBDA c : c \in FilenameChars)

secure_filename(filename) ==
    Strip(AsciiStrip(SplitJoin(ReplaceSep(filename))), {".", "_"})

(* ------------------------------ urlencode ------------------------------ *)
\* characters quote_plus(safe='') escapes, with their two hex digits
PercentCode ==
    [c \in {"&", "=", "+", "%", "/", "?"} |->
        CASE c = "&" -> <<"2", "6">> [] c = "=" -> <<"3", "D">>
          [] c = "+" -> <<"2", "B">> [] c = "%" -> <<"2", "5">>
          [] c = "/" -> <<"2", "F">> [] c = "?" -> <<"3", "F">>]

\* quote_plus that escapes nothing but the space
quote_char_raw(c) == IF c = " " THEN <<"+">> ELSE <<c>>

quote_char(c) ==
    IF c = " " THEN <<"+">>
    ELSE IF c \in DOMAIN PercentCode THEN <<"%">> \o PercentCode[c]
    ELSE <<c>>

RECURSIVE quote_plus(_)
quote_plus(s) ==
    IF s = <<>> THEN <<>> ELSE quote_char(Head(s)) \o quote_plus(Tail(s))

\* urlencode(params) for a dict given as its items in insertion order
RECURSIVE urlencode(_)
urlencode(items) ==
    IF items = <<>> THEN <<>>
    ELSE quote_plus(items[1][1]) \o <<"=">> \o quote_plus(items[1][2])
         \o (IF Len(items) > 1 THEN <<"&">> \o urlencode(Tail(items)) ELSE <<>>)

(* ------------------------- parameter preservation ---------------------- *)
\* request.args.items(): each key once, in order of first appearance, with
\* the first value submitted for it
RECURSIVE ArgsItems(_)
ArgsItems(args) ==
    IF args = <<>> THEN <<>>
    ELSE <<Head(args)>>
         \o ArgsItems(SelectSeq(Tail(args), LAMBDA p : p[1] # Head(args)[1]))

utm_ == <<"u", "t", "m", "_">>
gclid == <<"g", "c", "l", "i", "d">>

\* dict.update(extra) on a dict given as its items
RECURSIVE DictUpdate(_, _)
DictUpdate(items, extra) ==
    IF extra = <<>> THEN items
    ELSE LET e == Head(extra)
             has == \E i \in 1..Len(items) : items[i][1] = e[1]
             put == IF has
                    THEN [i \in 1..Len(items) |->
                            IF items[i][1] = e[1] THEN e ELSE items[i]]
                    ELSE Append(items, e)
         IN  DictUpdate(put, Tail(extra))

get_preserved_params(args) ==
    SelectSeq(ArgsItems(args), LAMBDA p : StartsWith(p[1], utm_) \/ p[1] = gclid)

preserve_params(args, default_url, extra_params) ==
    LET kept == SelectSeq(ArgsItems(args),
                          LAMBDA p : StartsWith(p[1], utm_) \/ p[1] = gclid)
        params == DictUpdate(kept, extra_params)
    IN  IF params # <<>>
        THEN <<default_url, "?">> \o urlencode(params)
        ELSE <<default_url>>

l1_base_url == "https://application.taskifyjobs.com/submit"

redirect_to_l1_with_params(args) ==
    LET preserved_params == get_preserved_params(args)
    IN  IF preserved_params # <<>>
        THEN <<l1_base_url, "?">> \o urlencode(preserved_params)
        ELSE <<l1_base_url>>

\* url_for('index')
IndexUrl == "/"

(* ------------------------------ the state ------------------------------ *)
\* app.config['MAX_CONTENT_LENGTH']
MAX_CONTENT_LENGTH == 16 * 1024 * 1024

required_fields == <<"first_name", "last_name", "email">>

Workers == {1, 2}

\* form.get(field)
FormGet(form, field) ==
    IF field \in DOMAIN form THEN Some(form[field]) ELSE None

\* not x, for an Optional string x
Falsy(x) == x = None \/ x[1] = <<>>

\* field.replace('_', ' ').title()
FieldTitle(field) ==
    CASE field = "first_name" -> "First Name"
      [] field = "last_name" -> "Last Name"
      [] field = "email" -> "Email"

MissingFlash(field) ==
    [message |-> <<"Missing required field: ", FieldTitle(field)>>,
     category |-> "error"]
NoFileFlash == [message |-> <<"No selected file">>, category |-> "error"]
TryAgainFlash ==
    [message |-> <<"Error submitting application. Please try again.">>,
     category |-> "error"]
SuccessFlash ==
    [message |-> <<"Application submitted successfully!">>,
     category |-> "message"]
TooLargeFlash ==
    [message |-> <<"File too large. Maximum size is 16MB.">>,
     category |-> "error"]

\* redirect(location) after flash(...)
Redirect(location, flash) == [location |-> location, flash |-> flash]

NoRequest ==
    [content_length |-> 0, form |-> <<>>, files |-> None,
     user_agent |-> None, args |-> <<>>]
NoResponse == [location |-> <<>>, flash |-> [message |-> <<>>, category |-> ""]]
\* a request's locals: resume_filename, the offset file.save has reached,
\* the row db.session.commit() has stored for applicant (None until then),
\* and the expression of index that raised into the except branch ("" when
\* none did)
NoLocal == [resume_filename |-> None, pos |-> 0, applicant |-> None, raised |-> ""]

\* a validation loop that reports the last field the form lacks
FirstMissing_last(form) ==
    LET missing == SelectSeq(required_fields,
                             LAMBDA f : Falsy(FormGet(form, f)))
    IN  IF missing = <<>> THEN None ELSE Some(missing[Len(missing)])

\* the first required field the form lacks, as an Optional
FirstMissing(form) ==
    LET missing == SelectSeq(required_fields,
                             LAMBDA f : Falsy(FormGet(form, f)))
    IN  IF missing = <<>> THEN None ELSE Some(Head(missing))

\* bool(file): a FileStorage is truthy iff its filename is non-empty
FileTruthy(files) == files # None /\ files[1].filename # <<>>

\* a classifier whose labels are capitalised
Source_titled(user_agent) ==
    LET ua == Lower(IF user_agent = None THEN <<>> ELSE user_agent[1])
    IN  IF Contains(ua, <<"p", "y", "t", "h", "o", "n">>)
           \/ Contains(ua, <<"r", "e", "q", "u", "e", "s", "t", "s">>)
        THEN "Bot" ELSE "Direct"

\* request.headers.get('User-Agent', '').lower(), then the substring test
Source(user_agent) ==
    LET ua == Lower(IF user_agent = None THEN <<>> ELSE user_agent[1])
    IN  IF Contains(ua, <<"p", "y", "t", "h", "o", "n">>)
           \/ Contains(ua, <<"r", "e", "q", "u", "e", "s", "t", "s">>)
        THEN "bot" ELSE "direct"

\* an except branch that redirects to the bare form URL
ExceptRedirect_bare(r) == Redirect(<<IndexUrl>>, TryAgainFlash)

\* the except branch of index: rollback, flash, redirect to the form
ExceptRedirect(r) ==
    Redirect(preserve_params(r.args, IndexUrl, <<>>), TryAgainFlash)

\* the 413 error handler
too_large(r) ==
    Redirect(preserve_params(r.args, IndexUrl, <<>>), TooLargeFlash)

RECURSIVE MaxId(_)
MaxId(rows) ==
    IF rows = <<>> THEN 0
    ELSE LET m == MaxId(Tail(rows))
         IN  IF Head(rows).id > m THEN Head(rows).id ELSE m

\* an id that repeats the largest one in use
NextId_stuck(rows) == IF rows = <<>> THEN 1 ELSE MaxId(rows)

\* the id an INTEGER PRIMARY KEY column gets on insert
NextId(rows) == MaxId(rows) + 1

Applicant(r, resume_filename, source) ==
    [id |-> NextId(applicants),
     first_name |-> r.form["first_name"],
     last_name |-> r.form["last_name"],
     email |-> r.form["email"],
     resume_filename |-> resume_filename,
     source |-> source]

InFlight == Cardinality({w \in Workers : pc[w] \in {"open", "write", "commit"}})

(* ------------------------------ POST / --------------------------------- *)
\* index, from the request's arrival to its first access of shared state.
\* Reading request.form of a body over MAX_CONTENT_LENGTH raises
\* RequestEntityTooLarge inside the try block.
index_receive(w, r) ==
    /\ pc[w] = "idle"
    /\ req' = [req EXCEPT ![w] = r]
    /\ pre' = [pre EXCEPT ![w] = uploads]
    /\ IF r.content_length > MAX_CONTENT_LENGTH
       THEN /\ resp' = [resp EXCEPT ![w] = ExceptRedirect(r)]
            /\ pc' = [pc EXCEPT ![w] = "done"]
            /\ local' = [local EXCEPT ![w] =
                  [NoLocal EXCEPT !.raised = "request.form"]]
       ELSE IF FirstMissing(r.form) # None
       THEN /\ resp' = [resp EXCEPT ![w] =
                  Redirect(preserve_params(r.args, IndexUrl, <<>>),
                           MissingFlash(FirstMissing(r.form)[1]))]
            /\ pc' = [pc EXCEPT ![w] = "done"]
            /\ local' = [local EXCEPT ![w] = NoLocal]
       ELSE IF FileTruthy(r.files) /\ r.files[1].filename # <<>>
       THEN IF r.files[1].filename = <<>>
            THEN /\ resp' = [resp EXCEPT ![w] =
                       Redirect(preserve_params(r.args, IndexUrl, <<>>),
                                NoFileFlash)]
                 /\ pc' = [pc EXCEPT ![w] = "done"]
                 /\ local' = [local EXCEPT ![w] = NoLocal]
            ELSE /\ resp' = [resp EXCEPT ![w] = NoResponse]
                 /\ pc' = [pc EXCEPT ![w] = "open"]
                 /\ local' = [local EXCEPT ![w] =
                       [NoLocal EXCEPT !.resume_filename =
                            Some(secure_filename(r.files[1].filename))]]
       ELSE /\ resp' = [resp EXCEPT ![w] = NoResponse]
            /\ pc' = [pc EXCEPT ![w] = "commit"]
            /\ local' = [local EXCEPT ![w] = NoLocal]
    /\ UNCHANGED <<applicants, has_table, uploads, lastWriter, exclusive, spc,
                   counts, dirty, mpc>>

\* an open that keeps the bytes already stored
OpenAppend(existing) == IF existing = None THEN Some(<<>>) ELSE existing

\* open(file_path, "wb") on a file that is absent (None) or has bytes
OpenTruncate(existing) == Some(<<>>)

\* file.save(file_path): open(file_path, "wb").  An empty sanitized name
\* makes file_path the upload directory itself and open raises.
index_file_open(w) ==
    /\ pc[w] = "open"
    /\ LET name == local[w].resume_filename[1]
       IN  IF name = <<>>
           THEN /\ resp' = [resp EXCEPT ![w] = ExceptRedirect(req[w])]
                /\ pc' = [pc EXCEPT ![w] = "done"]
                /\ local' = [local EXCEPT ![w].raised = "file.save"]
                /\ UNCHANGED <<uploads, lastWriter, exclusive>>
           ELSE LET others == {v \in Workers \ {w} :
                                  /\ pc[v] = "write"
                                  /\ local[v].resume_filename = Some(name)}
                IN  /\ uploads' = [uploads EXCEPT ![name] = OpenTruncate(uploads[name])]
                    /\ pc' = [pc EXCEPT ![w] = "write"]
                    /\ lastWriter' = [lastWriter EXCEPT ![name] = w]
                    /\ exclusive' = [v \in Workers |->
                          IF v = w THEN others = {}
                          ELSE IF v \in others THEN FALSE ELSE exclusive[v]]
                    /\ UNCHANGED <<resp, local>>
    /\ UNCHANGED <<applicants, has_table, req, pre, spc, counts, dirty, mpc>>

\* the bytes of a file after writing chunk at offset pos
WriteAt(bytes, pos, chunk) ==
    [i \in 1..(IF pos + 1 > Len(bytes) THEN pos + 1 ELSE Len(bytes)) |->
        IF i = pos + 1 THEN chunk
        ELSE IF i <= Len(bytes) THEN bytes[i] ELSE "NUL"]

\* file.save(file_path): one buffer of the copy loop (werkzeug copies the
\* upload to the open file buffer by buffer, each at the writer's own offset)
index_file_write(w) ==
    /\ pc[w] = "write"
    /\ LET name == local[w].resume_filename[1]
           content == req[w].files[1].content
           pos == local[w].pos
       IN  /\ uploads' = [uploads EXCEPT ![name] =
                 Some(WriteAt(uploads[name][1], pos, content[pos + 1]))]
           /\ lastWriter' = [lastWriter EXCEPT ![name] = w]
           /\ local' = [local EXCEPT ![w].pos = pos + 1]
           /\ pc' = [pc EXCEPT ![w] =
                 IF pos + 1 = Len(content) THEN "commit" ELSE "write"]
    /\ UNCHANGED <<applicants, has_table, req, resp, pre, exclusive, spc, counts,
                   dirty, mpc>>

\* db.session.add(applicant); db.session.commit().  The INSERT raises when
\* the table is absent or the database refuses the write; the except branch
\* then rolls back and redirects to the form.
index_commit(w, ok) ==
    /\ pc[w] = "commit"
    /\ IF ok /\ has_table
       THEN LET applicant == Applicant(req[w], local[w].resume_filename,
                                       Source(req[w].user_agent))
            IN  /\ applicants' = Append(applicants, applicant)
                /\ local' = [local EXCEPT ![w].applicant = Some(applicant)]
                /\ pc' = [pc EXCEPT ![w] = "log"]
                /\ dirty' = (dirty \/ spc \in {"total", "bot"})
                /\ UNCHANGED resp
       ELSE /\ resp' = [resp EXCEPT ![w] = ExceptRedirect(req[w])]
            /\ local' = [local EXCEPT ![w].raised = "db.session.commit"]
            /\ pc' = [pc EXCEPT ![w] = "done"]
            /\ UNCHANGED <<applicants, dirty>>
    /\ UNCHANGED <<has_table, uploads, req, pre, lastWriter, exclusive, spc,
                   counts, mpc>>

\* applicant.id in the log line after the commit: the session expired the
\* object on commit, so the attribute is read back from the table by primary
\* key.  The read raises when the table or the row is gone or the database
\* refuses it, and the except branch answers although the row was committed;
\* otherwise the success flash and the redirect downstream follow.
index_log(w, ok) ==
    /\ pc[w] = "log"
    /\ LET id == local[w].applicant[1].id
           found == has_table /\ \E i \in 1..Len(applicants) : applicants[i].id = id
       IN  IF ok /\ found
           THEN /\ resp' = [resp EXCEPT ![w] =
                      Redirect(redirect_to_l1_with_params(req[w].args), SuccessFlash)]
                /\ UNCHANGED local
           ELSE /\ resp' = [resp EXCEPT ![w] = ExceptRedirect(req[w])]
                /\ local' = [local EXCEPT ![w].raised = "applicant.id"]
    /\ pc' = [pc EXCEPT ![w] = "done"]
    /\ UNCHANGED <<applicants, has_table, uploads, req, pre, lastWriter,
                   exclusive, spc, counts, dirty, mpc>>

\* the redirect leaves; the worker is free for its next request
index_respond(w) ==
    /\ pc[w] = "done"
    /\ pc' = [pc EXCEPT ![w] = "idle"]
    /\ req' = [req EXCEPT ![w] = NoRequest]
    /\ resp' = [resp EXCEPT ![w] = NoResponse]
    /\ local' = [local EXCEPT ![w] = NoLocal]
    /\ pre' = [pre EXCEPT ![w] = [k \in DOMAIN uploads |-> None]]
    /\ exclusive' = [exclusive EXCEPT ![w] = TRUE]
    /\ UNCHANGED <<applicants, has_table, uploads, lastWriter, spc, counts,
                   dirty, mpc>>

(* --------------------------- migrate_database ------------------------- *)
\* db.drop_all() on line 53: the table and its rows go, or the call raises
\* and control passes to the except branch with the table as it was.  The
\* function tests nothing before it drops; no route calls it, it is run from
\* a shell or an importing script beside the serving threads.
migrate_drop(ok) ==
    /\ mpc = "idle"
    /\ IF ok
       THEN /\ applicants' = <<>>
            /\ has_table' = FALSE
            /\ mpc' = "create"
            /\ dirty' = (dirty \/ (spc \in {"total", "bot"} /\ applicants # <<>>))
       ELSE /\ mpc' = "except"
            /\ UNCHANGED <<applicants, has_table, dirty>>
    /\ UNCHANGED <<uploads, pc, req, resp, local, pre, lastWriter, exclusive,
                   spc, counts>>

\* db.create_all() on line 54, or on line 59 in the except branch: the table
\* is created when absent and kept when present.  When the call on line 54
\* raises the except branch tries once more; when that raises too the
\* exception leaves the function.
migrate_create(ok) ==
    /\ mpc \in {"create", "except"}
    /\ IF ok
       THEN /\ has_table' = TRUE
            /\ mpc' = "idle"
       ELSE /\ has_table' = has_table
            /\ mpc' = IF mpc = "create" THEN "except" ELSE "idle"
    /\ UNCHANGED <<applicants, uploads, pc, req, resp, local, pre, lastWriter,
                   exclusive, spc, counts, dirty>>

migrate_database ==
    \/ \E ok \in BOOLEAN : migrate_drop(ok)
    \/ \E ok \in BOOLEAN : migrate_create(ok)

(* --------------------------- GET /api/status --------------------------- *)
CountSource(rows, source) ==
    Len(SelectSeq(rows, LAMBDA a : a.source = source))

NoCounts ==
    [total_applications |-> 0, bot_submissions |-> 0, direct_submissions |-> 0]

\* the 500 handler: a count raised because the table is absent, and the
\* request is answered without counts
internal_error ==
    /\ spc' = "error"
    /\ counts' = NoCounts

\* Applicant.query.count()
api_status_total ==
    /\ spc \in {"idle", "done", "error"}
    /\ IF has_table
       THEN /\ counts' = [NoCounts EXCEPT !.total_applications = Len(applicants)]
            /\ spc' = "total"
       ELSE internal_error
    /\ dirty' = FALSE
    /\ UNCHANGED <<applicants, has_table, uploads, pc, req, resp, local, pre,
                   lastWriter, exclusive, mpc>>

\* Applicant.query.filter_by(source='bot').count()
api_status_bot ==
    /\ spc = "total"
    /\ IF has_table
       THEN /\ counts' = [counts EXCEPT
                            !.bot_submissions = CountSource(applicants, "bot")]
            /\ spc' = "bot"
       ELSE internal_error
    /\ UNCHANGED <<applicants, has_table, uploads, pc, req, resp, local, pre,
                   lastWriter, exclusive, dirty, mpc>>

\* Applicant.query.filter_by(source='direct').count(), then the response
api_status_direct ==
    /\ spc = "bot"
    /\ IF has_table
       THEN /\ counts' = [counts EXCEPT
                            !.direct_submissions = CountSource(applicants, "direct")]
            /\ spc' = "done"
       ELSE internal_error
    /\ UNCHANGED <<applicants, has_table, uploads, pc, req, resp, local, pre,
                   lastWriter, exclusive, dirty, mpc>>

(* ------------------------------ the inputs ----------------------------- *)
FieldValues == {<<>>, <<" ">>, <<"A">>}

\* every form over the required fields: each absent, empty, blank or filled
Forms == UNION {[D -> FieldValues] : D \in SUBSET {"first_name", "last_name", "email"}}

ValidForm == [f \in {"first_name", "last_name", "email"} |-> <<"A">>]

ContentA == <<"a1", "a2">>
ContentB == <<"b1">>

cv == <<"c", "v">>
\* resume parts: none, one without a filename, and named ones
NoNameFile == Some([filename |-> <<>>, content |-> ContentA])
CvFile == Some([filename |-> cv, content |-> ContentA])
DotDotCvFile == Some([filename |-> <<".", ".", "/", "c", "v">>, content |-> ContentB])
DotDotFile == Some([filename |-> <<".", ".">>, content |-> ContentA])
EtFile == Some([filename |-> <<"e", " ", "/", "t", "?">>, content |-> ContentB])
Files == {None, NoNameFile, CvFile, DotDotCvFile, DotDotFile, EtFile}

\* the names a stored file can have
StoreKeys == {secure_filename(f[1].filename) : f \in Files \ {None}} \ {<<>>}

Mozilla == Some(<<"M", "o", "z">>)
PythonRequests == Some(<<"P", "y", "t", "h", "o", "n", "-", "r", "e", "q">>)

\* a body exactly at the limit and one a byte over it
ContentLengths == {MAX_CONTENT_LENGTH, MAX_CONTENT_LENGTH + 1}

ArgKeys == {gclid, utm_, <<"u", "t", "m", "_", "&">>, <<"u", "t", "m">>}
ArgValues == {<<>>, <<"b", " ", "&", "=">>, <<"%", "2", "6", "+">>}
ArgPairs == ArgKeys \X ArgValues

\* query strings of at most MaxParams parameters
ArgLists == UNION {[1..n -> ArgPairs] : n \in 0..MaxParams}

CampaignArgs == <<<<utm_, <<"a">>>>, <<<<"x", "u", "t", "m", "_">>, <<"a">>>>>>

\* requests that vary the form and the resume part
FormRequests ==
    [content_length : ContentLengths, form : Forms,
     files : Files \ {DotDotCvFile, EtFile},
     user_agent : {Mozilla}, args : {CampaignArgs}]

\* requests that vary the query string
QueryRequests ==
    [content_length : {MAX_CONTENT_LENGTH},
     form : {ValidForm, [last_name |-> <<"A">>]}, files : {None},
     user_agent : {PythonRequests}, args : ArgLists]

\* valid requests without a resume: worker 1 serves a browser, worker 2 a
\* script
StatusRequests(w) ==
    [content_length : {MAX_CONTENT_LENGTH}, form : {ValidForm}, files : {None},
     user_agent : {IF w = 1 THEN Mozilla ELSE PythonRequests}, args : {<<>>}]

\* valid requests with a resume: worker 1 uploads cv, worker 2 ../cv or
\* "e /t?"
UploadRequests(w) ==
    [content_length : {MAX_CONTENT_LENGTH}, form : {ValidForm},
     files : IF w = 1 THEN {CvFile} ELSE {DotDotCvFile, EtFile},
     user_agent : {Mozilla}, args : {<<>>}]

(* --------------------------- the specifications ------------------------ *)
\* a row an earlier run of the server has left in job_portal.db
EarlierRow(id, resume_filename, source) ==
    [id |-> id, first_name |-> <<"A">>, last_name |-> <<"A">>,
     email |-> <<"A">>, resume_filename |-> resume_filename,
     source |-> source]

\* the tables an earlier run can have left: at most MaxEarlierRows rows,
\* each from a browser with the resume cv or from a script without one
EarlierTables ==
    UNION {{[i \in 1..n |-> EarlierRow(i, t[i][1], t[i][2])] :
                t \in [1..n -> {<<Some(cv), "direct">>, <<None, "bot">>}]} :
           n \in 0..MaxEarlierRows}

\* the upload folder of the working directory: empty, or with a file cv
EarlierUploads ==
    {[k \in StoreKeys |-> None],
     [k \in StoreKeys |-> IF k = cv THEN Some(ContentA) ELSE None]}

\* what start-up finds: db.create_all() and os.makedirs(exist_ok=True) keep
\* the rows and files that are there.  The database sits next to main.py and
\* the upload folder in the working directory, so the rows and the files
\* need not belong together.
EarlierRuns == [applicants : EarlierTables, uploads : EarlierUploads]

Init ==
    /\ \E st \in EarlierRuns :
          /\ applicants = st.applicants
          /\ uploads = st.uploads
    /\ has_table = TRUE
    /\ pc = [w \in Workers |-> "idle"]
    /\ req = [w \in Workers |-> NoRequest]
    /\ resp = [w \in Workers |-> NoResponse]
    /\ local = [w \in Workers |-> NoLocal]
    /\ pre = [w \in Workers |-> [k \in StoreKeys |-> None]]
    /\ lastWriter = [k \in StoreKeys |-> 0]
    /\ exclusive = [w \in Workers |-> TRUE]
    /\ spc = "idle"
    /\ counts = NoCounts
    /\ dirty = FALSE
    /\ mpc = "idle"

\* worker w is free and the table has room for the row of one more request
Accepting(w, rows) == pc[w] = "idle" /\ Len(applicants) + InFlight < rows

\* file.save of a request that carries a resume
index_save(w) ==
    \/ index_file_open(w)
    \/ index_file_write(w)

\* the insert and the response
index_finish(w) ==
    \/ \E ok \in BOOLEAN : index_commit(w, ok)
    \/ \E ok \in BOOLEAN : index_log(w, ok)
    \/ index_respond(w)

\* submissions one at a time, over every form and resume part
Next ==
    \/ Accepting(1, MaxRows) /\ \E r \in FormRequests : index_receive(1, r)
    \/ index_save(1)
    \/ index_finish(1)
    \/ migrate_database

Spec == Init /\ [][Next]_vars

\* submissions one at a time, over every query string; none carries a
\* resume, so file.save is never reached
NextQuery ==
    \/ Accepting(1, MaxRows) /\ \E r \in QueryRequests : index_receive(1, r)
    \/ index_finish(1)
    \/ migrate_database

SpecQuery == Init /\ [][NextQuery]_vars

\* concurrent submissions without a resume and a concurrent status request
NextStatus ==
    \/ \E w \in Workers :
          Accepting(w, MaxConcRows) /\ \E r \in StatusRequests(w) : index_receive(w, r)
    \/ \E w \in Workers : index_finish(w)
    \/ api_status_total
    \/ api_status_bot
    \/ api_status_direct
    \/ migrate_database

SpecStatus == Init /\ [][NextStatus]_vars

\* concurrent submissions that upload a resume
NextUpload ==
    \/ \E w \in Workers :
          Accepting(w, MaxConcRows) /\ \E r \in UploadRequests(w) : index_receive(w, r)
    \/ \E w \in Workers : index_save(w)
    \/ \E w \in Workers : index_finish(w)
    \/ migrate_database

SpecUpload == Init /\ [][NextUpload]_vars

(* ------------------- reading a response, for the claims ---------------- *)
RECURSIVE SplitOn(_, _)
\* s.split(sep)
SplitOn(s, sep) ==
    IF \A i \in 1..Len(s) : s[i] # sep THEN <<s>>
    ELSE LET i == CHOOSE i \in 1..Len(s) :
                      s[i] = sep /\ \A j \in 1..(i - 1) : s[j] # sep
         IN  <<SubSeq(s, 1, i - 1)>> \o SplitOn(SubSeq(s, i + 1, Len(s)), sep)

RECURSIVE unquote_plus(_)
unquote_plus(s) ==
    IF s = <<>> THEN <<>>
    ELSE IF Head(s) = "+" THEN <<" ">> \o unquote_plus(Tail(s))
    ELSE IF /\ Head(s) = "%" /\ Len(s) >= 3
            /\ \E c \in DOMAIN PercentCode : PercentCode[c] = SubSeq(s, 2, 3)
         THEN <<CHOOSE c \in DOMAIN PercentCode : PercentCode[c] = SubSeq(s, 2, 3)>>
              \o unquote_plus(SubSeq(s, 4, Len(s)))
    ELSE <<Head(s)>> \o unquote_plus(Tail(s))

\* key=value, split at the first "="
QueryPair(segment) ==
    LET parts == SplitOn(segment, "=")
    IN  <<unquote_plus(parts[1]),
          unquote_plus(SubSeq(segment, Len(parts[1]) + 2, Len(segment)))>>

\* the decoded key/value pairs of a redirect location, in order
LocationPairs(location) ==
    IF Len(location) <= 2 THEN <<>>
    ELSE LET segments == SplitOn(SubSeq(location, 3, Len(location)), "&")
         IN  [i \in 1..Len(segments) |-> QueryPair(segments[i])]

IsCampaignKey(k) ==
    \/ k = <<"g", "c", "l", "i", "d">>
    \/ Len(k) >= 4 /\ k[1] = "u" /\ k[2] = "t" /\ k[3] = "m" /\ k[4] = "_"

\* the value the inbound query string gives key k (its first one)
FirstValue(args, k) ==
    args[CHOOSE i \in 1..Len(args) :
            args[i][1] = k /\ \A j \in 1..(i - 1) : args[j][1] # k][2]

CampaignPairs(args) ==
    {<<k, FirstValue(args, k)>> :
        k \in {key \in {args[i][1] : i \in 1..Len(args)} : IsCampaignKey(key)}}

\* location is base plus exactly the inbound campaign parameters
CarriesCampaign(location, base, args) ==
    LET pairs == LocationPairs(location)
    IN  /\ location[1] = base
        /\ Len(location) > 1 => location[2] = "?" /\ Len(location) > 2
        /\ {pairs[i] : i \in 1..Len(pairs)} = CampaignPairs(args)
        /\ Len(pairs) = Cardinality(CampaignPairs(args))
        /\ CampaignPairs(args) = {} => location = <<base>>

Done(w) == pc[w] = "done"
WithinLimit(w) == req[w].content_length <= MAX_CONTENT_LENGTH
Succeeded(w) ==
    Done(w) /\ resp[w].flash.message = <<"Application submitted successfully!">>
Failed(w) == Done(w) /\ resp[w].flash.category = "error"
\* the request has stored no row
AddedNoRow(w) == local[w].applicant = None
\* the insert of the request raised
InsertFailed(w) == Done(w) /\ local[w].raised = "db.session.commit"
Lacks(form, f) == f \notin DOMAIN form \/ form[f] = <<>>
AllPresent(form) ==
    ~Lacks(form, "first_name") /\ ~Lacks(form, "last_name") /\ ~Lacks(form, "email")
FirstLackedTitle(form) ==
    IF Lacks(form, "first_name") THEN "First Name"
    ELSE IF Lacks(form, "last_name") THEN "Last Name" ELSE "Email"

(* ------------------------------- claims -------------------------------- *)

\* C1: a POST / within the size limit whose form lacks (absent or empty) a
\* required field adds no row and is redirected to the form page with the
\* campaign parameters and an error naming the first lacked field, in the
\* order first_name, last_name, email.
C1_MissingFieldRejected ==
    \A w \in Workers :
        Done(w) /\ WithinLimit(w) /\ ~AllPresent(req[w].form) =>
            /\ AddedNoRow(w)
            /\ CarriesCampaign(resp[w].location, "/", req[w].args)
            /\ resp[w].flash =
                  [message |-> <<"Missing required field: ",
                                 FirstLackedTitle(req[w].form)>>,
                   category |-> "error"]

C1_Witness ==
    \E w \in Workers :
        /\ Done(w) /\ WithinLimit(w)
        /\ ~Lacks(req[w].form, "first_name")
        /\ "last_name" \notin DOMAIN req[w].form
        /\ "email" \in DOMAIN req[w].form /\ req[w].form["email"] = <<>>
        /\ resp[w].flash.message = <<"Missing required field: ", "Last Name">>
        /\ Len(applicants) = 1 /\ AddedNoRow(w)

\* a step of some request (the steps of migrate_database are none)
RequestStep == <<pc, req, resp, local, spc, counts>>' # <<pc, req, resp, local, spc, counts>>

\* the step in which the request of worker w stores its row
Inserts(w) == local[w].applicant = None /\ local'[w].applicant # None

\* C2: a submission stores a row in one step, which appends exactly that
\* row, with an id greater than every id in the table; a submission that
\* reaches redirect-success has stored exactly one row and stores no other;
\* no step of a request changes the table in any other way, so requests
\* never update or remove a row.
C2_OneRowPerSuccess ==
    [][/\ \A w \in Workers :
             /\ Inserts(w) =>
                   /\ applicants' = Append(applicants, local'[w].applicant[1])
                   /\ \A i \in 1..Len(applicants) :
                         local'[w].applicant[1].id > applicants[i].id
             /\ local[w].applicant # None /\ pc'[w] # "idle" =>
                   local'[w].applicant = local[w].applicant
             /\ ~Succeeded(w) /\ Succeeded(w)' =>
                   /\ Len(local'[w].applicant) = 1
                   /\ applicants' = applicants
       /\ RequestStep =>
             \/ applicants' = applicants
             \/ \E w \in Workers : Inserts(w)]_vars

C2_Witness ==
    /\ Len(applicants) = 2
    /\ applicants[2].id > applicants[1].id
    /\ \A w \in Workers : Succeeded(w)
    /\ {local[w].applicant[1] : w \in Workers} = {applicants[1], applicants[2]}

\* C3: the redirect of every finished POST / (to the downstream URL on
\* success, to the form page on a validation or server error) carries
\* exactly the inbound keys equal to gclid or starting with utm_, each with
\* its inbound value, and is the bare base URL when there is none.
C3_CampaignParamsPreserved ==
    \A w \in Workers :
        Done(w) =>
            CarriesCampaign(resp[w].location,
                            IF Succeeded(w)
                            THEN "https://application.taskifyjobs.com/submit"
                            ELSE "/",
                            req[w].args)

C3_Witness ==
    \E w \in Workers :
        /\ Succeeded(w)
        /\ req[w].args = <<<<<<"u", "t", "m", "_", "&">>, <<"b", " ", "&", "=">>>>,
                           <<<<"u", "t", "m">>, <<"%", "2", "6", "+">>>>>>
        /\ LocationPairs(resp[w].location) =
              <<<<<<"u", "t", "m", "_", "&">>, <<"b", " ", "&", "=">>>>>>

\* C4 as claimed: every response of GET /api/status has
\* bot_submissions + direct_submissions = total_applications, also when
\* submissions are inserted while the three counts are taken.
C4_CountsAddUp ==
    spc = "done" =>
        counts.bot_submissions + counts.direct_submissions
            = counts.total_applications

\* C4 amended: the counts add up whenever the rows of the table did not
\* change (no submission inserted, no table dropped) between the first and
\* the last count of the status request.
C4_CountsAddUpWhenQuiet ==
    spc = "done" /\ ~dirty =>
        counts.bot_submissions + counts.direct_submissions
            = counts.total_applications

C4_Witness ==
    /\ spc = "done" /\ ~dirty
    /\ counts.bot_submissions >= 1 /\ counts.direct_submissions >= 1
    /\ counts.total_applications = 2
    /\ \E w \in Workers : Succeeded(w)

\* C5: a POST / whose body exceeds MAX_CONTENT_LENGTH adds no row and is
\* answered by the 413 handler: a redirect to the form page with the
\* size-specific message.
C5_OversizedGetsSizeMessage ==
    \A w \in Workers :
        Done(w) /\ ~WithinLimit(w) =>
            /\ AddedNoRow(w)
            /\ resp[w] = too_large(req[w])

\* C6: a required field that is non-empty but blank after trimming counts as
\* missing: the submission ends in a validation error and adds no row.
C6_BlankFieldRejected ==
    \A w \in Workers :
        /\ Done(w) /\ WithinLimit(w)
        /\ \E f \in DOMAIN req[w].form :
              req[w].form[f] # <<>> /\ Strip(req[w].form[f], {" "}) = <<>>
        => /\ AddedNoRow(w)
           /\ resp[w].flash.message[1] = "Missing required field: "

\* C7: with every required field present, a resume part whose filename is
\* empty ends the submission with the "no file selected" validation error
\* and adds no row.
C7_EmptyFilenameRejected ==
    \A w \in Workers :
        /\ Done(w) /\ WithinLimit(w) /\ AllPresent(req[w].form)
        /\ req[w].files # None /\ req[w].files[1].filename = <<>>
        => /\ AddedNoRow(w)
           /\ resp[w].flash = [message |-> <<"No selected file">>,
                               category |-> "error"]
           /\ CarriesCampaign(resp[w].location, "/", req[w].args)

\* C8: when the insert raises, the request has left no row in the table and
\* the response is a redirect to the form page with the campaign parameters
\* and the generic "try again" message.
C8_FailedInsertRollsBack ==
    \A w \in Workers :
        InsertFailed(w) =>
            /\ AddedNoRow(w)
            /\ CarriesCampaign(resp[w].location, "/", req[w].args)
            /\ resp[w].flash =
                  [message |-> <<"Error submitting application. Please try again.">>,
                   category |-> "error"]

C8_Witness ==
    \E w \in Workers :
        /\ InsertFailed(w) /\ has_table
        /\ Len(applicants) = 1 /\ AddedNoRow(w)
        /\ Len(resp[w].location) > 2

\* C9: a submission that ends in a validation or server error has added no
\* row and leaves the upload directory as it was before the request.
C9_FailurePersistsNothing ==
    \A w \in Workers :
        Failed(w) => AddedNoRow(w) /\ uploads = pre[w]

\* C10 as claimed: when two successful submissions stored a resume under
\* the same sanitized name, both rows carry that name and the one file
\* under it holds the bytes of the upload that wrote last.
SameNamePair(w1, w2, k) ==
    /\ w1 # w2 /\ Succeeded(w1) /\ Succeeded(w2)
    /\ local[w1].resume_filename = <<k>> /\ local[w2].resume_filename = <<k>>

\* each of the two submissions stored a row, and both rows name k
TwoRowsNamed(w1, w2, k) ==
    /\ Len(local[w1].applicant) = 1 /\ Len(local[w2].applicant) = 1
    /\ local[w1].applicant[1].resume_filename = <<k>>
    /\ local[w2].applicant[1].resume_filename = <<k>>

C10_LastWriteWins ==
    \A k \in DOMAIN uploads : \A w1, w2 \in Workers :
        SameNamePair(w1, w2, k) =>
            /\ TwoRowsNamed(w1, w2, k)
            /\ uploads[k] = <<req[lastWriter[k]].files[1].content>>

\* C10 amended: the same, provided neither upload's file.save overlapped
\* the other's; overlapping saves may leave a mixture of both uploads.
C10_LastWriteWinsWhenApart ==
    \A k \in DOMAIN uploads : \A w1, w2 \in Workers :
        SameNamePair(w1, w2, k) /\ exclusive[w1] /\ exclusive[w2] =>
            /\ TwoRowsNamed(w1, w2, k)
            /\ uploads[k] = <<req[lastWriter[k]].files[1].content>>

C10_Witness ==
    \E k \in DOMAIN uploads : \E w1, w2 \in Workers :
        /\ SameNamePair(w1, w2, k) /\ exclusive[w1] /\ exclusive[w2]
        /\ lastWriter[k] = w2
        /\ req[w1].files[1].content = <<"a1", "a2">>
        /\ req[w2].files[1].content = <<"b1">>
        /\ uploads[k] = <<<<"b1">>>>

====
